---- MODULE Spec2Model ----
(***************************************************************************)
(* Model of the XInput backend of gilrs (src/platform/windows/gamepad.rs): *)
(* the polling thread started by Gilrs::spawn_thread, the state differ     *)
(* Gilrs::compare_state, the startup prelude built by Gilrs::new and the   *)
(* consumer's Gilrs::next_event.                                           *)
(***************************************************************************)
EXTENDS Integers, Sequences, FiniteSets, TLC

(***************************************************************************)
(* Bounds of the model.                                                    *)
(***************************************************************************)
\* the polling loop is explored for cycles 0 .. MaxCycles
MaxCycles == 100
\* the polling thread is explored while it has sent fewer than MaxEvents events
MaxEvents == 2
\* the run across the wrap-around of the counter starts at 2^64 - WrapWindow
WrapWindow == 20

(***************************************************************************)
(* Program constants.                                                      *)
(***************************************************************************)
ITERATIONS_TO_CHECK_IF_CONNECTED == 100
\* a u64 is kept as four 16-bit limbs, least significant first
LIMB == 65536
I16_MIN == -32768
I16_MAX == 32767
U8_MAX == 255
NUM_SLOTS == 4

\* winapi::xinput button masks of XINPUT_GAMEPAD.wButtons
XINPUT_GAMEPAD_DPAD_UP == 1
XINPUT_GAMEPAD_DPAD_DOWN == 2
XINPUT_GAMEPAD_DPAD_LEFT == 4
XINPUT_GAMEPAD_DPAD_RIGHT == 8
XINPUT_GAMEPAD_START == 16
XINPUT_GAMEPAD_BACK == 32
XINPUT_GAMEPAD_LEFT_THUMB == 64
XINPUT_GAMEPAD_RIGHT_THUMB == 128
XINPUT_GAMEPAD_LEFT_SHOULDER == 256
XINPUT_GAMEPAD_RIGHT_SHOULDER == 512
XINPUT_GAMEPAD_A == 4096
XINPUT_GAMEPAD_B == 8192
XINPUT_GAMEPAD_X == 16384
XINPUT_GAMEPAD_Y == 32768

\* winapi::xinput calibration constants used by AXES_INFO
XINPUT_GAMEPAD_LEFT_THUMB_DEADZONE == 7849
XINPUT_GAMEPAD_RIGHT_THUMB_DEADZONE == 8689
XINPUT_GAMEPAD_TRIGGER_THRESHOLD == 30

\* native_ev_codes
BTN_SOUTH == 0
BTN_EAST == 1
BTN_NORTH == 3
BTN_WEST == 4
BTN_LT == 6
BTN_RT == 7
BTN_SELECT == 10
BTN_START == 11
BTN_MODE == 12
BTN_LTHUMB == 13
BTN_RTHUMB == 14
BTN_DPAD_UP == 15
BTN_DPAD_DOWN == 16
BTN_DPAD_LEFT == 17
BTN_DPAD_RIGHT == 18

AXIS_LSTICKX == 0
AXIS_LSTICKY == 1
AXIS_RSTICKX == 3
AXIS_RSTICKY == 4
AXIS_RT2 == 10
AXIS_LT2 == 11

BUTTONS ==
    << BTN_SOUTH, BTN_EAST, BTN_NORTH, BTN_WEST, BTN_LT, BTN_RT, BTN_SELECT,
       BTN_START, BTN_MODE, BTN_LTHUMB, BTN_RTHUMB, BTN_DPAD_UP, BTN_DPAD_DOWN,
       BTN_DPAD_LEFT, BTN_DPAD_RIGHT >>

AXES ==
    << AXIS_LSTICKX, AXIS_LSTICKY, AXIS_RSTICKX, AXIS_RSTICKY, AXIS_RT2, AXIS_LT2 >>

\* AxisInfo of the axis with native code nec (None for the codes without one)
NoAxisInfo == [none |-> TRUE]

AxisInfo(min, max, deadzone) == [min |-> min, max |-> max, deadzone |-> deadzone]

AXES_INFO ==
    << AxisInfo(I16_MIN, I16_MAX, XINPUT_GAMEPAD_LEFT_THUMB_DEADZONE),
       AxisInfo(I16_MIN, I16_MAX, XINPUT_GAMEPAD_LEFT_THUMB_DEADZONE),
       NoAxisInfo,
       AxisInfo(I16_MIN, I16_MAX, XINPUT_GAMEPAD_RIGHT_THUMB_DEADZONE),
       AxisInfo(I16_MIN, I16_MAX, XINPUT_GAMEPAD_RIGHT_THUMB_DEADZONE),
       NoAxisInfo, NoAxisInfo, NoAxisInfo, NoAxisInfo, NoAxisInfo,
       AxisInfo(0, U8_MAX, XINPUT_GAMEPAD_TRIGGER_THRESHOLD),
       AxisInfo(0, U8_MAX, XINPUT_GAMEPAD_TRIGGER_THRESHOLD) >>

axis_info(nec) == IF nec + 1 \in DOMAIN AXES_INFO THEN AXES_INFO[nec + 1] ELSE NoAxisInfo

(***************************************************************************)
(* Values.                                                                 *)
(***************************************************************************)
Slots == 0 .. (NUM_SLOTS - 1)

\* XINPUT_GAMEPAD
XGamepad(w, lt, rt, lx, ly, rx, ry) ==
    [wButtons |-> w, bLeftTrigger |-> lt, bRightTrigger |-> rt,
     sThumbLX |-> lx, sThumbLY |-> ly, sThumbRX |-> rx, sThumbRY |-> ry]

\* XINPUT_STATE
XState(pkt, pad) == [dwPacketNumber |-> pkt, Gamepad |-> pad]

\* mem::zeroed::<XState>()
ZeroedGamepad == XGamepad(0, 0, 0, 0, 0, 0, 0)

ZeroedXState == XState(0, ZeroedGamepad)

\* The f32 quotient `num as f32 / den as f32`, kept as the pair it is computed
\* from: IEEE division is correctly rounded, so the quotient is exactly 1.0 iff
\* num = den, exactly -1.0 iff num = -den and exactly 0.0 iff num = 0.
F32Div(num, den) == [num |-> num, den |-> den]

NoValue == F32Div(0, 1)

\* Event::new(id, EventType::...)
Event(i, kind, elem, code, value) ==
    [id |-> i, kind |-> kind, elem |-> elem, code |-> code, value |-> value]

Connected(i) == Event(i, "Connected", "", 0, NoValue)

Disconnected(i) == Event(i, "Disconnected", "", 0, NoValue)

ButtonPressed(i, button, code) == Event(i, "ButtonPressed", button, code, NoValue)

ButtonReleased(i, button, code) == Event(i, "ButtonReleased", button, code, NoValue)

AxisChanged(i, axis, value, code) == Event(i, "AxisChanged", axis, code, value)

(***************************************************************************)
(* u64 arithmetic of `counter`.                                            *)
(***************************************************************************)
U64Zero == << 0, 0, 0, 0 >>

RECURSIVE U64Inc(_, _)
\* c.wrapping_add(1), carrying from limb k on
U64Inc(c, k) ==
    IF k > Len(c) THEN c
    ELSE IF c[k] + 1 < LIMB THEN [c EXCEPT ![k] = c[k] + 1]
    ELSE U64Inc([c EXCEPT ![k] = 0], k + 1)

wrapping_add_one(c) == U64Inc(c, 1)

RECURSIVE U64ModFrom(_, _, _)
\* the value of limbs k .. 1 of c, modulo m
U64ModFrom(c, k, m) ==
    IF k > Len(c) THEN 0
    ELSE (U64ModFrom(c, k + 1, m) * (LIMB % m) + c[k]) % m

\* c % m
U64Mod(c, m) == U64ModFrom(c, 1, m)

\* c < n, for a small n
U64Below(c, n) == c[2] = 0 /\ c[3] = 0 /\ c[4] = 0 /\ c[1] < n

\* 2^64 - WrapWindow
WrapStart == << LIMB - WrapWindow, LIMB - 1, LIMB - 1, LIMB - 1 >>

\* c >= 2^64 - WrapWindow
NearWrap(c) == c[2] = LIMB - 1 /\ c[3] = LIMB - 1 /\ c[4] = LIMB - 1 /\ c[1] >= WrapStart[1]

(***************************************************************************)
(* The state differ.                                                       *)
(***************************************************************************)
\* l & r on 16-bit words
RECURSIVE BitAnd(_, _)
BitAnd(l, r) ==
    IF l = 0 \/ r = 0 THEN 0
    ELSE (IF l % 2 = 1 /\ r % 2 = 1 THEN 1 ELSE 0) + 2 * BitAnd(l \div 2, r \div 2)

\* a variant of is_mask_eq that compares the whole words
is_mask_eq_WholeWord(l, r, mask) == l = r

is_mask_eq(l, r, mask) == (BitAnd(l, mask) # 0) = (BitAnd(r, mask) # 0)

\* a variant of normalize that divides by i16::MAX on both sides
normalize_ByMax(val) == F32Div(val, I16_MAX)

\* a variant of normalize that divides by -i16::MIN on both sides
normalize_Symmetric(val) == F32Div(val, -I16_MIN)

normalize(val) == F32Div(val, IF val < 0 THEN -I16_MIN ELSE I16_MAX)

\* a variant of the axis block that reports no reading within the axis's deadzone
AxisBlock_Deadzone(i, cur, old, axis, value, code) ==
    IF cur # old /\ (IF cur < 0 THEN -cur ELSE cur) > axis_info(code).deadzone
    THEN << AxisChanged(i, axis, value, code) >>
    ELSE << >>

\* a variant of the axis block that reports every reading that is not at rest
AxisBlock_OffRest(i, cur, old, axis, value, code) ==
    IF cur # 0 THEN << AxisChanged(i, axis, value, code) >> ELSE << >>

\* one `if g.<axis> != pg.<axis> { tx.send(AxisChanged) }` block
AxisBlock(i, cur, old, axis, value, code) ==
    IF cur # old THEN << AxisChanged(i, axis, value, code) >> ELSE << >>

\* one `if !is_mask_eq(g.wButtons, pg.wButtons, mask) { tx.send(...) }` block
ButtonBlock(i, g, pg, mask, button, code) ==
    IF ~is_mask_eq(g.wButtons, pg.wButtons, mask)
    THEN IF BitAnd(g.wButtons, mask) # 0
         THEN << ButtonPressed(i, button, code) >>
         ELSE << ButtonReleased(i, button, code) >>
    ELSE << >>

\* a variant of compare_state that tests the axes in the order of AXES and the
\* buttons in the order of BUTTONS
compare_state_TableOrder(i, g, pg) ==
    AxisBlock(i, g.sThumbLX, pg.sThumbLX, "LeftStickX", normalize(g.sThumbLX), AXIS_LSTICKX)
    \o AxisBlock(i, g.sThumbLY, pg.sThumbLY, "LeftStickY", normalize(g.sThumbLY), AXIS_LSTICKY)
    \o AxisBlock(i, g.sThumbRX, pg.sThumbRX, "RightStickX", normalize(g.sThumbRX), AXIS_RSTICKX)
    \o AxisBlock(i, g.sThumbRY, pg.sThumbRY, "RightStickY", normalize(g.sThumbRY), AXIS_RSTICKY)
    \o AxisBlock(i, g.bRightTrigger, pg.bRightTrigger, "RightTrigger2",
                 F32Div(g.bRightTrigger, U8_MAX), AXIS_RT2)
    \o AxisBlock(i, g.bLeftTrigger, pg.bLeftTrigger, "LeftTrigger2",
                 F32Div(g.bLeftTrigger, U8_MAX), AXIS_LT2)
    \o ButtonBlock(i, g, pg, XINPUT_GAMEPAD_A, "South", BTN_SOUTH)
    \o ButtonBlock(i, g, pg, XINPUT_GAMEPAD_B, "East", BTN_EAST)
    \o ButtonBlock(i, g, pg, XINPUT_GAMEPAD_Y, "North", BTN_NORTH)
    \o ButtonBlock(i, g, pg, XINPUT_GAMEPAD_X, "West", BTN_WEST)
    \o ButtonBlock(i, g, pg, XINPUT_GAMEPAD_LEFT_SHOULDER, "LeftTrigger", BTN_LT)
    \o ButtonBlock(i, g, pg, XINPUT_GAMEPAD_RIGHT_SHOULDER, "RightTrigger", BTN_RT)
    \o ButtonBlock(i, g, pg, XINPUT_GAMEPAD_BACK, "Select", BTN_SELECT)
    \o ButtonBlock(i, g, pg, XINPUT_GAMEPAD_START, "Start", BTN_START)
    \o ButtonBlock(i, g, pg, XINPUT_GAMEPAD_LEFT_THUMB, "LeftThumb", BTN_LTHUMB)
    \o ButtonBlock(i, g, pg, XINPUT_GAMEPAD_RIGHT_THUMB, "RightThumb", BTN_RTHUMB)
    \o ButtonBlock(i, g, pg, XINPUT_GAMEPAD_DPAD_UP, "DPadUp", BTN_DPAD_UP)
    \o ButtonBlock(i, g, pg, XINPUT_GAMEPAD_DPAD_DOWN, "DPadDown", BTN_DPAD_DOWN)
    \o ButtonBlock(i, g, pg, XINPUT_GAMEPAD_DPAD_LEFT, "DPadLeft", BTN_DPAD_LEFT)
    \o ButtonBlock(i, g, pg, XINPUT_GAMEPAD_DPAD_RIGHT, "DPadRight", BTN_DPAD_RIGHT)

\* the events compare_state sends, in the order it sends them
compare_state(i, g, pg) ==
    AxisBlock(i, g.bLeftTrigger, pg.bLeftTrigger, "LeftTrigger2",
              F32Div(g.bLeftTrigger, U8_MAX), AXIS_LT2)
    \o AxisBlock(i, g.bRightTrigger, pg.bRightTrigger, "RightTrigger2",
                 F32Div(g.bRightTrigger, U8_MAX), AXIS_RT2)
    \o AxisBlock(i, g.sThumbLX, pg.sThumbLX, "LeftStickX", normalize(g.sThumbLX), AXIS_LSTICKX)
    \o AxisBlock(i, g.sThumbLY, pg.sThumbLY, "LeftStickY", normalize(g.sThumbLY), AXIS_LSTICKY)
    \o AxisBlock(i, g.sThumbRX, pg.sThumbRX, "RightStickX", normalize(g.sThumbRX), AXIS_RSTICKX)
    \o AxisBlock(i, g.sThumbRY, pg.sThumbRY, "RightStickY", normalize(g.sThumbRY), AXIS_RSTICKY)
    \o ButtonBlock(i, g, pg, XINPUT_GAMEPAD_DPAD_UP, "DPadUp", BTN_DPAD_UP)
    \o ButtonBlock(i, g, pg, XINPUT_GAMEPAD_DPAD_DOWN, "DPadDown", BTN_DPAD_DOWN)
    \o ButtonBlock(i, g, pg, XINPUT_GAMEPAD_DPAD_LEFT, "DPadLeft", BTN_DPAD_LEFT)
    \o ButtonBlock(i, g, pg, XINPUT_GAMEPAD_DPAD_RIGHT, "DPadRight", BTN_DPAD_RIGHT)
    \o ButtonBlock(i, g, pg, XINPUT_GAMEPAD_START, "Start", BTN_START)
    \o ButtonBlock(i, g, pg, XINPUT_GAMEPAD_BACK, "Select", BTN_SELECT)
    \o ButtonBlock(i, g, pg, XINPUT_GAMEPAD_LEFT_THUMB, "LeftThumb", BTN_LTHUMB)
    \o ButtonBlock(i, g, pg, XINPUT_GAMEPAD_RIGHT_THUMB, "RightThumb", BTN_RTHUMB)
    \o ButtonBlock(i, g, pg, XINPUT_GAMEPAD_LEFT_SHOULDER, "LeftTrigger", BTN_LT)
    \o ButtonBlock(i, g, pg, XINPUT_GAMEPAD_RIGHT_SHOULDER, "RightTrigger", BTN_RT)
    \o ButtonBlock(i, g, pg, XINPUT_GAMEPAD_A, "South", BTN_SOUTH)
    \o ButtonBlock(i, g, pg, XINPUT_GAMEPAD_B, "East", BTN_EAST)
    \o ButtonBlock(i, g, pg, XINPUT_GAMEPAD_X, "West", BTN_WEST)
    \o ButtonBlock(i, g, pg, XINPUT_GAMEPAD_Y, "North", BTN_NORTH)

(***************************************************************************)
(* State.                                                                  *)
(***************************************************************************)
VARIABLES
    probe,              \* per slot: did the query of gamepad_new(id) return ERROR_SUCCESS
    gamepads,           \* Gilrs.gamepads: the status each slot got from gamepad_new
    additional_events,  \* Gilrs.additional_events: the startup prelude
    rx,                 \* the mpsc channel: events sent by tx and not yet received
    connected,          \* polling thread: connected[id]
    prev_state,         \* polling thread: prev_state (one XState for all slots)
    counter,            \* polling thread: counter
    since_sweep,        \* cycles finished since the last cycle whose counter was a
                        \* multiple of ITERATIONS_TO_CHECK_IF_CONNECTED
    id,                 \* polling thread: the index of the for loop (4: loop finished)
    val,                \* polling thread: val of the latest loop body
    cmp,                \* the compare_state call of the latest loop body, if any
    last_polled,        \* per slot, the snapshot its latest successful query returned
    prev_owner,         \* the slot whose snapshot prev_state holds (-1: zeroed)
    flipped,            \* per slot, the buttons whose bit flipped, with a larger packet
                        \* number, at the latest change of its snapshot (kept by the
                        \* runs that follow a pair of devices)
    delivered,          \* the events next_event has returned, in order
    platform,           \* the backend compiled in: "windows" or "default"
    not_observed,       \* Gilrs.not_observed: the placeholder handle
    api                 \* the latest lookup or iterator call and what it returned

vars ==
    << probe, gamepads, additional_events, rx, connected, prev_state, counter, since_sweep, id,
       val, cmp, last_polled, prev_owner, flipped, delivered, platform, not_observed, api >>

\* the backend, the placeholder and the latest lookup
api_vars == << platform, not_observed, api >>

consumer_vars == << additional_events, delivered, api_vars >>

thread_vars ==
    << connected, prev_state, counter, since_sweep, id, val, cmp, last_polled, prev_owner,
       flipped >>

NoSnap == [none |-> TRUE]

NoCall == [called |-> FALSE]

\* the record of one compare_state(i, g, pg, tx) call and of what it sent
Call(i, g, pg) == [called |-> TRUE, id |-> i, g |-> g, pg |-> pg, out |-> compare_state(i, g, pg)]

(***************************************************************************)
(* Device handles: the backend's Gamepad wrapped with a status.            *)
(***************************************************************************)
\* Uuid::nil()
UuidNil == "00000000-0000-0000-0000-000000000000"

\* a u32 as two 16-bit limbs, least significant first
U32(n) == << n % LIMB, n \div LIMB >>

\* u32::MAX
U32_MAX == << LIMB - 1, LIMB - 1 >>

\* gamepad::Gamepad::from_inner_status(inner, status)
from_inner_status(inner, status) == [inner |-> inner, status |-> status]

\* platform::windows::Gamepad { uuid, id }
Gamepad(uuid, i) == [uuid |-> uuid, id |-> i]

Gamepad_none == Gamepad(UuidNil, U32_MAX)

Gamepad_name(g) == "Xbox Controller"

Gamepad_uuid(g) == g.uuid

Gamepad_is_ff_supported(g) == TRUE

\* the value Gilrs::new gives Gilrs.not_observed
Gilrs_not_observed == from_inner_status(Gamepad_none, "NotObserved")

\* gamepads[i]: the handle gamepad_new(i) built, with the status of its probe
SlotHandle(i) == from_inner_status(Gamepad(UuidNil, U32(i)), gamepads[i])

\* platform::default::Gamepad { name, uuid }
default_Gamepad_none == [name |-> "", uuid |-> UuidNil]

default_Gamepad_name(g) == g.name

default_Gamepad_uuid(g) == g.uuid

default_Gamepad_max_ff_effects(g) == 0

default_Gamepad_is_ff_supported(g) == FALSE

\* `pub fn set_ff_gain(&mut self, gain: u16) {}`: the handle afterwards
default_Gamepad_set_ff_gain(h, gain) == h

\* the value platform::default::Gilrs::new gives Gilrs.not_observed
default_Gilrs_not_observed == from_inner_status(default_Gamepad_none, "NotObserved")

\* a reference to a handle stored in Gilrs: the place, and the handle there
Ref(field, i, handle) == [field |-> field, index |-> i, handle |-> handle]

\* self.gamepads.get(id).unwrap_or(&self.not_observed), id a usize in limbs
gamepad(idx) ==
    IF U64Below(idx, NUM_SLOTS)
    THEN Ref("gamepads", idx[1], SlotHandle(idx[1]))
    ELSE Ref("not_observed", -1, not_observed)

\* self.gamepads.get_mut(id).unwrap_or(&mut self.not_observed)
gamepad_mut(idx) ==
    IF U64Below(idx, NUM_SLOTS)
    THEN Ref("gamepads", idx[1], SlotHandle(idx[1]))
    ELSE Ref("not_observed", -1, not_observed)

\* a variant of the stub lookup that hands out a handle of its own per index
default_gamepad_PerIndex(idx) ==
    Ref("gamepads", idx[1], from_inner_status(default_Gamepad_none, "Disconnected"))

\* platform::default::Gilrs::gamepad: `&self.not_observed`
default_gamepad(idx) == Ref("not_observed", -1, not_observed)

\* platform::default::Gilrs::gamepad_mut: `&mut self.not_observed`
default_gamepad_mut(idx) == Ref("not_observed", -1, not_observed)

\* Option::None
None == [some |-> FALSE]

\* platform::default::EventIterator::next
EventIterator_next == None

NoApiCall == [op |-> "none"]

\* a call of the lookup API with its argument and what it returned
ApiCall(op, arg, ret) == [op |-> op, arg |-> arg, ret |-> ret]

(***************************************************************************)
(* The hardware, as XInputGetState reports it.                             *)
(***************************************************************************)
\* the slots that have hardware in the model (the others are always absent)
HwSlots == { 0, 1 }

\* the packet numbers the devices of the model report
HwPackets == { 0, 1 }

\* the pads the devices of the model are seen in
HwPads ==
    { ZeroedGamepad,
      XGamepad(XINPUT_GAMEPAD_A, 0, 0, 0, 0, 0, 0) }

\* The states a successful XInputGetState(i, &mut state) can store in `state`
\* (a buffer every loop body writes before it reads it: s below): a device
\* polled before and attached since reports the same packet number with the
\* same pad, or a later packet number; otherwise anything.
HwStates(i) ==
    IF connected[i] /\ last_polled[i] # NoSnap
    THEN { last_polled[i] }
         \cup { XState(p, pad) : p \in { q \in HwPackets : q > last_polled[i].dwPacketNumber },
                                 pad \in HwPads }
    ELSE { XState(p, pad) : p \in HwPackets, pad \in HwPads }


(***************************************************************************)
(* Gilrs::new                                                              *)
(***************************************************************************)
\* a variant that reports a slot whose probe failed as Disconnected
gamepad_new_Disconnected(probe_ok) == IF probe_ok THEN "Connected" ELSE "Disconnected"

\* gamepad_new(id): the status from the probing query
gamepad_new(probe_ok) == IF probe_ok THEN "Connected" ELSE "NotObserved"

is_connected(status) == status = "Connected"

RECURSIVE Prelude(_, _)
\* connected.iter().enumerate().filter(con).map(Event::new(i, Connected)).collect()
Prelude(con, i) ==
    IF i >= NUM_SLOTS THEN << >>
    ELSE (IF con[i] THEN << Connected(i) >> ELSE << >>) \o Prelude(con, i + 1)

Init ==
    /\ probe \in [Slots -> BOOLEAN]
    /\ \A i \in Slots \ HwSlots : ~probe[i]
    /\ gamepads = [i \in Slots |-> gamepad_new(probe[i])]
    /\ connected = [i \in Slots |-> is_connected(gamepads[i])]
    /\ additional_events = Prelude(connected, 0)
    /\ rx = << >>
    /\ prev_state = ZeroedXState
    /\ counter = U64Zero
    /\ since_sweep = 0
    /\ id = 0
    /\ val = "NONE"
    /\ cmp = NoCall
    /\ last_polled = [i \in Slots |-> NoSnap]
    /\ prev_owner = -1
    /\ flipped = [i \in Slots |-> {}]
    /\ delivered = << >>
    /\ platform = "windows"
    /\ not_observed = Gilrs_not_observed
    /\ api = NoApiCall

\* the number of events the polling thread has sent so far
Sent ==
    Len(rx) + Len(delivered) - (Len(Prelude([i \in Slots |-> is_connected(gamepads[i])], 0))
                                - Len(additional_events))

(***************************************************************************)
(* Gilrs::spawn_thread: the body of `for id in 0..4`, by query result.     *)
(***************************************************************************)
\* a variant of the guard that throttles connected slots too
QueryNeeded_Throttled(i) == U64Mod(counter, ITERATIONS_TO_CHECK_IF_CONNECTED) = 0

\* a variant that never probes a slot tracked as disconnected
QueryNeeded_ConnectedOnly(i) == connected[i]

\* the guard of the loop body: is slot i queried in this cycle
QueryNeeded(i) == connected[i] \/ U64Mod(counter, ITERATIONS_TO_CHECK_IF_CONNECTED) = 0

\* a variant that sends Connected on every successful query
ConnectEvents_Always(i, con) == << Connected(i) >>

\* a variant that sets the flag without sending Connected
ConnectEvents_Silent(i, con) == << >>

\* `if !connected[id] { connected[id] = true; tx.send(Connected) }`
ConnectEvents(i, con) == IF ~con[i] THEN << Connected(i) >> ELSE << >>

\* a variant that clears the flag without sending Disconnected
DisconnectEvents_None(i, con) == << >>

\* `else if val == ERROR_DEVICE_NOT_CONNECTED && connected[id] { ... tx.send(Disconnected) }`
DisconnectEvents(i, con) == IF con[i] THEN << Disconnected(i) >> ELSE << >>

\* a variant that never finds the packet number changed
PacketChanged_Never(s, prev) == FALSE

\* a variant that finds the packet number changed on every successful query
PacketChanged_Always(s, prev) == TRUE

\* `if state.dwPacketNumber != prev_state.dwPacketNumber`
PacketChanged(s, prev) == s.dwPacketNumber # prev.dwPacketNumber

\* the slot is skipped by the throttle
PollSkip ==
    /\ id \in Slots
    /\ ~QueryNeeded(id)
    /\ val' = "NOT_QUERIED"
    /\ cmp' = NoCall
    /\ id' = id + 1
    /\ UNCHANGED << probe, gamepads, rx, connected, prev_state, counter, since_sweep, last_polled,
                    prev_owner, flipped, consumer_vars >>

\* val == ERROR_SUCCESS, while the thread has sent fewer than budget events
PollSuccessWithin(budget) ==
    /\ id \in Slots
    /\ id \in HwSlots
    /\ Sent < budget
    /\ QueryNeeded(id)
    /\ \E s \in HwStates(id) :
          /\ val' = "ERROR_SUCCESS"
          /\ connected' = [connected EXCEPT ![id] = TRUE]
          /\ last_polled' = [last_polled EXCEPT ![id] = s]
          /\ IF PacketChanged(s, prev_state)
             THEN /\ cmp' = Call(id, s.Gamepad, prev_state.Gamepad)
                  /\ rx' = rx \o ConnectEvents(id, connected) \o cmp'.out
                  /\ prev_state' = s
                  /\ prev_owner' = id
             ELSE /\ cmp' = NoCall
                  /\ rx' = rx \o ConnectEvents(id, connected)
                  /\ UNCHANGED << prev_state, prev_owner >>
    /\ id' = id + 1
    /\ UNCHANGED << probe, gamepads, counter, since_sweep, consumer_vars >>

\* val == ERROR_SUCCESS
PollSuccess ==
    /\ PollSuccessWithin(MaxEvents)
    /\ UNCHANGED flipped

\* val == ERROR_DEVICE_NOT_CONNECTED, while the thread has sent fewer than
\* budget events
PollNotConnectedWithin(budget) ==
    /\ id \in Slots
    /\ Sent < budget
    /\ QueryNeeded(id)
    /\ val' = "ERROR_DEVICE_NOT_CONNECTED"
    /\ cmp' = NoCall
    /\ rx' = rx \o DisconnectEvents(id, connected)
    /\ connected' = [connected EXCEPT ![id] = FALSE]
    /\ id' = id + 1
    /\ UNCHANGED << probe, gamepads, prev_state, counter, since_sweep, last_polled, prev_owner,
                    consumer_vars >>

\* val == ERROR_DEVICE_NOT_CONNECTED
PollNotConnected ==
    /\ PollNotConnectedWithin(MaxEvents)
    /\ UNCHANGED flipped

\* val is any other error code
PollError ==
    /\ id \in Slots
    /\ QueryNeeded(id)
    /\ val' = "ERROR_OTHER"
    /\ cmp' = NoCall
    /\ id' = id + 1
    /\ UNCHANGED << probe, gamepads, rx, connected, prev_state, counter, since_sweep, last_polled,
                    prev_owner, flipped, consumer_vars >>

\* `counter = counter.wrapping_add(1); thread::sleep(...)`, then the next cycle
EndCycle ==
    /\ id = NUM_SLOTS
    /\ U64Below(counter, MaxCycles) \/ NearWrap(counter)
    /\ counter' = wrapping_add_one(counter)
    /\ since_sweep' =
          IF U64Mod(counter', ITERATIONS_TO_CHECK_IF_CONNECTED) = 0 THEN 0 ELSE since_sweep + 1
    /\ id' = 0
    /\ val' = "NONE"
    /\ cmp' = NoCall
    /\ UNCHANGED << probe, gamepads, rx, connected, prev_state, last_polled, prev_owner,
                    flipped, consumer_vars >>

(***************************************************************************)
(* Gilrs::next_event                                                       *)
(***************************************************************************)
\* `if let Some(event) = self.additional_events.pop_front()`
NextEventPrelude ==
    /\ additional_events # << >>
    /\ delivered' = Append(delivered, Head(additional_events))
    /\ additional_events' = Tail(additional_events)
    /\ UNCHANGED << probe, gamepads, rx, thread_vars, api_vars >>

\* a variant that reads the channel before the prelude is drained
NextEventRecv_ChannelFirst ==
    /\ rx # << >>
    /\ delivered' = Append(delivered, Head(rx))
    /\ rx' = Tail(rx)
    /\ UNCHANGED << probe, gamepads, additional_events, thread_vars, api_vars >>

\* a variant that takes the newest event of the channel
NextEventRecv_Newest ==
    /\ additional_events = << >>
    /\ rx # << >>
    /\ delivered' = Append(delivered, rx[Len(rx)])
    /\ rx' = SubSeq(rx, 1, Len(rx) - 1)
    /\ UNCHANGED << probe, gamepads, additional_events, thread_vars, api_vars >>

\* `self.rx.try_recv().ok()` with an event in the channel
NextEventRecv ==
    /\ additional_events = << >>
    /\ rx # << >>
    /\ delivered' = Append(delivered, Head(rx))
    /\ rx' = Tail(rx)
    /\ UNCHANGED << probe, gamepads, additional_events, thread_vars, api_vars >>

\* `self.rx.try_recv().ok()` with the channel empty: None, and nothing changes
NextEventNone ==
    /\ additional_events = << >>
    /\ rx = << >>
    /\ UNCHANGED vars

Next ==
    \/ PollSkip
    \/ PollSuccess
    \/ PollNotConnected
    \/ PollError
    \/ EndCycle
    \/ NextEventPrelude
    \/ NextEventRecv
    \/ NextEventNone

Spec == Init /\ [][Next]_vars

(***************************************************************************)
(* Properties of the connection lifecycle tracker (the polling loop).      *)
(***************************************************************************)
\* a step of the polling thread that runs the loop body for slot `id`
BodyStep == id \in Slots /\ id' = id + 1

\* the events that step sent
NewEvents == SubSeq(rx', Len(rx) + 1, Len(rx'))

IsLifecycle(e) == e.kind \in { "Connected", "Disconnected" }

IsInput(e) == e.kind \in { "ButtonPressed", "ButtonReleased", "AxisChanged" }

\* the Connected and Disconnected events of slot i in a sequence of events
Lifecycle(events, i) == SelectSeq(events, LAMBDA e : e.id = i /\ IsLifecycle(e))

\* Connected, Disconnected, Connected, ...
Alternates(events) ==
    \A k \in 1 .. Len(events) :
        events[k].kind = IF k % 2 = 1 THEN "Connected" ELSE "Disconnected"

\* C1: for every slot the Connected and Disconnected events the consumer has
\* received (prelude included) strictly alternate, starting with Connected;
\* and a loop body sends a Connected event exactly when it moves the slot's
\* flag from false to true, a Disconnected event exactly when it moves it from
\* true to false, one event per edge and none otherwise.
C1_LifecycleAlternates ==
    /\ [](\A i \in Slots : Alternates(Lifecycle(delivered, i)))
    /\ [][BodyStep =>
            /\ \A i \in Slots \ { id } : connected'[i] = connected[i]
            /\ SelectSeq(NewEvents, IsLifecycle) =
                 IF ~connected[id] /\ connected'[id] THEN << Connected(id) >>
                 ELSE IF connected[id] /\ ~connected'[id] THEN << Disconnected(id) >>
                 ELSE << >>]_vars

\* a slot for which the consumer has seen Connected, Disconnected, Connected
C1_Witness ==
    \E i \in Slots : Len(Lifecycle(delivered, i)) >= 3

\* C2: whenever compare_state runs for slot id, the previous snapshot it is
\* given was stored by a loop body of that same slot (or is still the zeroed
\* initial value).
C2_SameDevice ==
    [][BodyStep /\ cmp'.called => prev_owner \in { -1, id }]_vars

\* the raw value of the button or axis an input event is about, in pad
RawField(pad, e) ==
    CASE e.elem = "LeftTrigger2" -> pad.bLeftTrigger
      [] e.elem = "RightTrigger2" -> pad.bRightTrigger
      [] e.elem = "LeftStickX" -> pad.sThumbLX
      [] e.elem = "LeftStickY" -> pad.sThumbLY
      [] e.elem = "RightStickX" -> pad.sThumbRX
      [] e.elem = "RightStickY" -> pad.sThumbRY
      [] e.elem = "DPadUp" -> BitAnd(pad.wButtons, XINPUT_GAMEPAD_DPAD_UP)
      [] e.elem = "DPadDown" -> BitAnd(pad.wButtons, XINPUT_GAMEPAD_DPAD_DOWN)
      [] e.elem = "DPadLeft" -> BitAnd(pad.wButtons, XINPUT_GAMEPAD_DPAD_LEFT)
      [] e.elem = "DPadRight" -> BitAnd(pad.wButtons, XINPUT_GAMEPAD_DPAD_RIGHT)
      [] e.elem = "Start" -> BitAnd(pad.wButtons, XINPUT_GAMEPAD_START)
      [] e.elem = "Select" -> BitAnd(pad.wButtons, XINPUT_GAMEPAD_BACK)
      [] e.elem = "LeftThumb" -> BitAnd(pad.wButtons, XINPUT_GAMEPAD_LEFT_THUMB)
      [] e.elem = "RightThumb" -> BitAnd(pad.wButtons, XINPUT_GAMEPAD_RIGHT_THUMB)
      [] e.elem = "LeftTrigger" -> BitAnd(pad.wButtons, XINPUT_GAMEPAD_LEFT_SHOULDER)
      [] e.elem = "RightTrigger" -> BitAnd(pad.wButtons, XINPUT_GAMEPAD_RIGHT_SHOULDER)
      [] e.elem = "South" -> BitAnd(pad.wButtons, XINPUT_GAMEPAD_A)
      [] e.elem = "East" -> BitAnd(pad.wButtons, XINPUT_GAMEPAD_B)
      [] e.elem = "West" -> BitAnd(pad.wButtons, XINPUT_GAMEPAD_X)
      [] e.elem = "North" -> BitAnd(pad.wButtons, XINPUT_GAMEPAD_Y)
      [] OTHER -> 0

\* C3: no event is sent for a field that is unchanged; in particular a
\* connected slot whose snapshot is the same as at its previous poll sends no
\* button or axis event, whatever the other slots do.
C3_NoEventForUnchangedField ==
    [][BodyStep /\ val' = "ERROR_SUCCESS" /\ connected[id]
         /\ last_polled[id] # NoSnap /\ last_polled'[id] = last_polled[id] =>
            \A k \in 1 .. Len(NewEvents) :
               IsInput(NewEvents[k]) =>
                  RawField(last_polled'[id].Gamepad, NewEvents[k])
                    # RawField(last_polled[id].Gamepad, NewEvents[k])]_vars

\* the loop body that moves slot `id` from not connected to connected
ConnectStep == BodyStep /\ val' = "ERROR_SUCCESS" /\ ~connected[id]

\* C4 (as claimed): in the cycle in which a slot goes from not connected to
\* connected, exactly one Connected event is sent for it and the differ is
\* not run.
C4_NoDiffOnConnect ==
    [][ConnectStep => NewEvents = << Connected(id) >> /\ cmp' = NoCall]_vars

\* C4 (amended): in that cycle the slot's flag is set, exactly one Connected
\* event is sent for it, first; the differ is run in the same cycle exactly
\* when the new snapshot's packet number differs from the stored previous
\* snapshot's, on the new snapshot and the stored previous one, and what it
\* sends follows the Connected event; the new snapshot is then stored.
C4_ConnectThenDiffOnPacketChange ==
    [][ConnectStep =>
         /\ connected'[id]
         /\ NewEvents # << >>
         /\ Head(NewEvents) = Connected(id)
         /\ \A k \in 2 .. Len(NewEvents) : IsInput(NewEvents[k]) /\ NewEvents[k].id = id
         /\ IF last_polled'[id].dwPacketNumber # prev_state.dwPacketNumber
            THEN /\ cmp'.called
                 /\ cmp'.id = id
                 /\ cmp'.g = last_polled'[id].Gamepad
                 /\ cmp'.pg = prev_state.Gamepad
                 /\ Tail(NewEvents) = cmp'.out
                 /\ prev_state' = last_polled'[id]
            ELSE /\ cmp' = NoCall
                 /\ Tail(NewEvents) = << >>
                 /\ prev_state' = prev_state]_vars

\* in cycle 0 a slot whose probe failed connects, and the differ sends a
\* button event right behind its Connected event
C4_Witness ==
    /\ U64Below(counter, 1)
    /\ val = "ERROR_SUCCESS"
    /\ cmp.called
    /\ id = cmp.id + 1
    /\ gamepads[cmp.id] = "NotObserved"
    /\ Len(cmp.out) = 1
    /\ Len(rx) >= 2
    /\ rx[Len(rx) - 1] = Connected(cmp.id)
    /\ rx[Len(rx)] = cmp.out[1]

\* C5: a query that reports device-not-present for a slot tracked as connected
\* marks the slot not connected, sends exactly one Disconnected event for it,
\* does not run the differ and leaves the stored previous snapshot unchanged.
C5_DisconnectNoDiff ==
    [][BodyStep /\ val' = "ERROR_DEVICE_NOT_CONNECTED" /\ connected[id] =>
         /\ ~connected'[id]
         /\ NewEvents = << Disconnected(id) >>
         /\ cmp' = NoCall
         /\ prev_state' = prev_state
         /\ prev_owner' = prev_owner]_vars

\* a connected slot has just been reported absent
C5_Witness ==
    /\ val = "ERROR_DEVICE_NOT_CONNECTED"
    /\ id \in 1 .. NUM_SLOTS
    /\ ~connected[id - 1]
    /\ rx # << >>
    /\ rx[Len(rx)] = Disconnected(id - 1)

\* C6: a query result that is neither success nor device-not-present sends no
\* event and leaves every connected flag and the stored previous snapshot
\* unchanged, whatever the slot's tracked state; and the slot stays scheduled:
\* a loop body skips the query only for a slot that is not connected in a
\* cycle whose counter is not a multiple of the throttle factor.
C6_TransientErrorIgnored ==
    /\ [][BodyStep /\ val' = "ERROR_OTHER" =>
            /\ rx' = rx
            /\ connected' = connected
            /\ prev_state' = prev_state
            /\ prev_owner' = prev_owner
            /\ cmp' = NoCall]_vars
    /\ [][BodyStep /\ val' = "NOT_QUERIED" =>
            /\ ~connected[id]
            /\ U64Mod(counter, ITERATIONS_TO_CHECK_IF_CONNECTED) # 0]_vars
    /\ [][BodyStep /\ (connected[id] \/ U64Mod(counter, ITERATIONS_TO_CHECK_IF_CONNECTED) = 0)
            => val' # "NOT_QUERIED"]_vars

\* a connected slot got a transient error in cycle 0 and is queried again,
\* with another transient error, in cycle 1
C6_Witness ==
    /\ val = "ERROR_OTHER"
    /\ id = 1
    /\ connected[0]
    /\ counter = wrapping_add_one(U64Zero)
    /\ last_polled[0] = NoSnap
    /\ rx = << >>

(***************************************************************************)
(* The state differ on its own: compare_state applied to a pair of pads.   *)
(***************************************************************************)
\* the button words of the pads compared: none, each single bit of the word,
\* all, and some pairs
DiffButtonWords ==
    { 0, 1, 2, 4, 8, 16, 32, 64, 128, 256, 512, 1024, 2048, 4096, 8192, 16384, 32768,
      65535, 3072,
      XINPUT_GAMEPAD_A + XINPUT_GAMEPAD_B,
      XINPUT_GAMEPAD_A + XINPUT_GAMEPAD_DPAD_UP,
      XINPUT_GAMEPAD_Y + XINPUT_GAMEPAD_START + XINPUT_GAMEPAD_LEFT_SHOULDER }

\* the pads compared: every button word with the axes at rest, and the axes at
\* rest, at the edge of their deadzone and at an extreme, with and without a button
DiffPads ==
    { XGamepad(w, 0, 0, 0, 0, 0, 0) : w \in DiffButtonWords }
    \cup { XGamepad(w, lt, rt, lx, ly, sx, 0) :
             w \in { 0, XINPUT_GAMEPAD_A },
             lt \in { 0, XINPUT_GAMEPAD_TRIGGER_THRESHOLD, U8_MAX },
             rt \in { 0, U8_MAX },
             lx \in { 0, XINPUT_GAMEPAD_LEFT_THUMB_DEADZONE, I16_MAX },
             ly \in { 0, I16_MIN },
             sx \in { 0, XINPUT_GAMEPAD_RIGHT_THUMB_DEADZONE } }
    \cup { XGamepad(0, 0, rt, 0, 0, 0, ry) : rt \in { 0, 1 }, ry \in { 0, -1, I16_MAX } }

\* a compare_state call that has not been made yet
Pending(i, g, pg) == [called |-> FALSE, id |-> i, g |-> g, pg |-> pg]

InitDiff ==
    /\ probe = [i \in Slots |-> TRUE]
    /\ gamepads = [i \in Slots |-> gamepad_new(probe[i])]
    /\ connected = [i \in Slots |-> is_connected(gamepads[i])]
    /\ additional_events = << >>
    /\ rx = << >>
    /\ prev_state = ZeroedXState
    /\ counter = U64Zero
    /\ since_sweep = 0
    /\ id = 0
    /\ val = "ERROR_SUCCESS"
    /\ \E g \in DiffPads, pg \in DiffPads : cmp = Pending(0, g, pg)
    /\ last_polled = [i \in Slots |-> NoSnap]
    /\ prev_owner = -1
    /\ flipped = [i \in Slots |-> {}]
    /\ delivered = << >>
    /\ platform = "windows"
    /\ not_observed = Gilrs_not_observed
    /\ api = NoApiCall

\* Self::compare_state(id, &state.Gamepad, &prev_state.Gamepad, &tx)
CompareStep ==
    /\ ~cmp.called
    /\ cmp' = Call(cmp.id, cmp.g, cmp.pg)
    /\ rx' = rx \o cmp'.out
    /\ UNCHANGED << probe, gamepads, connected, prev_state, counter, since_sweep, id, val, last_polled,
                    prev_owner, flipped, consumer_vars >>

NextDiff == CompareStep

SpecDiff == InitDiff /\ [][NextDiff]_vars

\* the mask compare_state tests for the button with native code `code`
\* (0: compare_state tests no bit for it)
XMask(code) ==
    CASE code = BTN_SOUTH -> XINPUT_GAMEPAD_A
      [] code = BTN_EAST -> XINPUT_GAMEPAD_B
      [] code = BTN_NORTH -> XINPUT_GAMEPAD_Y
      [] code = BTN_WEST -> XINPUT_GAMEPAD_X
      [] code = BTN_LT -> XINPUT_GAMEPAD_LEFT_SHOULDER
      [] code = BTN_RT -> XINPUT_GAMEPAD_RIGHT_SHOULDER
      [] code = BTN_SELECT -> XINPUT_GAMEPAD_BACK
      [] code = BTN_START -> XINPUT_GAMEPAD_START
      [] code = BTN_LTHUMB -> XINPUT_GAMEPAD_LEFT_THUMB
      [] code = BTN_RTHUMB -> XINPUT_GAMEPAD_RIGHT_THUMB
      [] code = BTN_DPAD_UP -> XINPUT_GAMEPAD_DPAD_UP
      [] code = BTN_DPAD_DOWN -> XINPUT_GAMEPAD_DPAD_DOWN
      [] code = BTN_DPAD_LEFT -> XINPUT_GAMEPAD_DPAD_LEFT
      [] code = BTN_DPAD_RIGHT -> XINPUT_GAMEPAD_DPAD_RIGHT
      [] OTHER -> 0

\* the raw reading of the axis with native code `code` in pad
AxisRaw(pad, code) ==
    CASE code = AXIS_LSTICKX -> pad.sThumbLX
      [] code = AXIS_LSTICKY -> pad.sThumbLY
      [] code = AXIS_RSTICKX -> pad.sThumbRX
      [] code = AXIS_RSTICKY -> pad.sThumbRY
      [] code = AXIS_RT2 -> pad.bRightTrigger
      [] code = AXIS_LT2 -> pad.bLeftTrigger

IsButtonEvent(e) == e.kind \in { "ButtonPressed", "ButtonReleased" }

IsAxisEvent(e) == e.kind = "AxisChanged"

Range(s) == { s[k] : k \in 1 .. Len(s) }

ButtonCodes == Range(BUTTONS)

AxisCodes == Range(AXES)

\* is the button's bit set in the word
Pressed(w, code) == BitAnd(w, XMask(code)) # 0

\* the button codes whose bit differs between two pads
ChangedButtons(g, pg) ==
    { c \in ButtonCodes : Pressed(g.wButtons, c) # Pressed(pg.wButtons, c) }

\* the positions of the events of one kind and native code in a batch
EventsOf(out, isKind(_), code) == { k \in 1 .. Len(out) : isKind(out[k]) /\ out[k].code = code }

\* C7: the number of button events compare_state sends equals the number of
\* button codes whose bit differs between the two pads: exactly one event per
\* changed button, ButtonPressed if the bit is set in the current pad and
\* ButtonReleased otherwise, and no event for a button whose bit is unchanged.
C7_DiffCompleteness ==
    cmp.called =>
        /\ Cardinality({ k \in 1 .. Len(cmp.out) : IsButtonEvent(cmp.out[k]) })
             = Cardinality(ChangedButtons(cmp.g, cmp.pg))
        /\ \A k \in 1 .. Len(cmp.out) :
              IsButtonEvent(cmp.out[k]) => cmp.out[k].code \in ChangedButtons(cmp.g, cmp.pg)
        /\ \A c \in ChangedButtons(cmp.g, cmp.pg) :
              /\ Cardinality(EventsOf(cmp.out, IsButtonEvent, c)) = 1
              /\ \A k \in EventsOf(cmp.out, IsButtonEvent, c) :
                    cmp.out[k].kind =
                       IF Pressed(cmp.g.wButtons, c) THEN "ButtonPressed" ELSE "ButtonReleased"

\* two pads that differ in three button bits have been compared
C7_Witness ==
    /\ cmp.called
    /\ Cardinality(ChangedButtons(cmp.g, cmp.pg)) = 3
    /\ \E c \in ChangedButtons(cmp.g, cmp.pg) : ~Pressed(cmp.g.wButtons, c)

\* the position of x in the sequence s (0 if it is not in s)
IndexOf(s, x) == IF x \in Range(s) THEN CHOOSE k \in 1 .. Len(s) : s[k] = x ELSE 0

\* the events of a batch that satisfy isKind come in the order of their codes in `order`
InOrder(out, isKind(_), order) ==
    \A j, k \in 1 .. Len(out) :
        j < k /\ isKind(out[j]) /\ isKind(out[k]) =>
            /\ IndexOf(order, out[j].code) > 0
            /\ IndexOf(order, out[j].code) < IndexOf(order, out[k].code)

\* C8 (as claimed): in one batch the axis events come in the order of axes()
\* and the button events in the order of buttons().
C8_TableOrder ==
    cmp.called =>
        /\ InOrder(cmp.out, IsAxisEvent, AXES)
        /\ InOrder(cmp.out, IsButtonEvent, BUTTONS)

\* the order in which compare_state tests the axes and the buttons
EmittedAxisOrder ==
    << AXIS_LT2, AXIS_RT2, AXIS_LSTICKX, AXIS_LSTICKY, AXIS_RSTICKX, AXIS_RSTICKY >>

EmittedButtonOrder ==
    << BTN_DPAD_UP, BTN_DPAD_DOWN, BTN_DPAD_LEFT, BTN_DPAD_RIGHT, BTN_START, BTN_SELECT,
       BTN_LTHUMB, BTN_RTHUMB, BTN_LT, BTN_RT, BTN_SOUTH, BTN_EAST, BTN_WEST, BTN_NORTH >>

\* C8 (amended): in one batch the axis events come in the fixed order
\* LeftTrigger2, RightTrigger2, LeftStickX, LeftStickY, RightStickX,
\* RightStickY and the button events in the fixed order DPadUp, DPadDown,
\* DPadLeft, DPadRight, Start, Select, LeftThumb, RightThumb, LeftTrigger,
\* RightTrigger, South, East, West, North, for every pair of pads.
C8_FixedOrder ==
    cmp.called =>
        /\ InOrder(cmp.out, IsAxisEvent, EmittedAxisOrder)
        /\ InOrder(cmp.out, IsButtonEvent, EmittedButtonOrder)

\* a batch with events for a trigger and a stick, and for a D-pad button and South
C8_Witness ==
    /\ cmp.called
    /\ EventsOf(cmp.out, IsAxisEvent, AXIS_LT2) # { }
    /\ EventsOf(cmp.out, IsAxisEvent, AXIS_LSTICKX) # { }
    /\ EventsOf(cmp.out, IsButtonEvent, BTN_DPAD_UP) # { }
    /\ EventsOf(cmp.out, IsButtonEvent, BTN_SOUTH) # { }

\* the pads of the scenario: A at rest, B with South pressed and LeftStickX at its maximum
ScenarioA == XGamepad(0, 0, 0, 0, 0, 0, 0)

ScenarioB == XGamepad(XINPUT_GAMEPAD_A, 0, 0, I16_MAX, 0, 0, 0)

\* the f32 quotient is exactly 1.0
IsOne(v) == v.num = v.den

\* C9: in one batch every AxisChanged event comes before every button event;
\* and diff(A, B) is exactly AxisChanged(LeftStickX, 1.0), ButtonPressed(South).
C9_AxesBeforeButtons ==
    cmp.called =>
        /\ \A j, k \in 1 .. Len(cmp.out) :
              IsAxisEvent(cmp.out[j]) /\ IsButtonEvent(cmp.out[k]) => j < k
        /\ (cmp.pg = ScenarioA /\ cmp.g = ScenarioB) =>
              /\ Len(cmp.out) = 2
              /\ cmp.out[1].id = cmp.id
              /\ cmp.out[1].kind = "AxisChanged"
              /\ cmp.out[1].elem = "LeftStickX"
              /\ cmp.out[1].code = AXIS_LSTICKX
              /\ IsOne(cmp.out[1].value)
              /\ cmp.out[2] = ButtonPressed(cmp.id, "South", BTN_SOUTH)

\* B has been compared with A
C9_Witness ==
    /\ cmp.called
    /\ cmp.pg = ScenarioA
    /\ cmp.g = ScenarioB
    /\ Len(cmp.out) = 2

\* the reading is within the deadzone radius the axis's AxisInfo gives
\* (from the centre for a stick, from min for a trigger)
InDeadzone(raw, code) ==
    LET info == axis_info(code)
    IN  /\ info # NoAxisInfo
        /\ (IF info.min < 0 THEN (IF raw < 0 THEN -raw ELSE raw) ELSE raw - info.min)
              <= info.deadzone

\* C10 (as claimed): for two pads whose readings of an axis differ but are
\* both within that axis's deadzone radius, the batch has no event for the axis.
C10_DeadzoneSuppression ==
    cmp.called =>
        \A c \in AxisCodes :
            InDeadzone(AxisRaw(cmp.g, c), c) /\ InDeadzone(AxisRaw(cmp.pg, c), c)
                => EventsOf(cmp.out, IsAxisEvent, c) = { }

\* the value compare_state reports for a raw reading of an axis
Normalized(raw, code) ==
    IF code \in { AXIS_LT2, AXIS_RT2 } THEN F32Div(raw, U8_MAX)
    ELSE F32Div(raw, IF raw < 0 THEN 32768 ELSE 32767)

\* C10 (amended): compare_state applies no deadzone. The batch has no event
\* for an axis exactly when the two raw readings of the axis are equal; any
\* difference of the raw readings, also one within the axis's deadzone radius,
\* gives exactly one AxisChanged event for the axis, with the current raw
\* reading divided by 255 (triggers), 32767 (sticks, reading >= 0) or 32768
\* (sticks, reading < 0).
C10_RawChangeAlwaysReported ==
    cmp.called =>
        \A c \in AxisCodes :
            IF AxisRaw(cmp.g, c) = AxisRaw(cmp.pg, c)
            THEN EventsOf(cmp.out, IsAxisEvent, c) = { }
            ELSE /\ Cardinality(EventsOf(cmp.out, IsAxisEvent, c)) = 1
                 /\ \A k \in EventsOf(cmp.out, IsAxisEvent, c) :
                       cmp.out[k].value = Normalized(AxisRaw(cmp.g, c), c)

\* two pads that differ on LeftStickX and on LeftTrigger2 only within the
\* deadzone radius have been compared, and both axes got an event
C10_Witness ==
    /\ cmp.called
    /\ cmp.pg = ScenarioA
    /\ cmp.g.sThumbLX = XINPUT_GAMEPAD_LEFT_THUMB_DEADZONE
    /\ cmp.g.bLeftTrigger = XINPUT_GAMEPAD_TRIGGER_THRESHOLD
    /\ EventsOf(cmp.out, IsAxisEvent, AXIS_LSTICKX) # { }
    /\ EventsOf(cmp.out, IsAxisEvent, AXIS_LT2) # { }

(***************************************************************************)
(* Properties of the event queue: the startup prelude and the channel.     *)
(***************************************************************************)
\* the slot indices in increasing order
SlotSeq == [k \in 1 .. NUM_SLOTS |-> k - 1]

\* the slots whose probe at construction succeeded, in increasing order
ProbedAttached == SelectSeq(SlotSeq, LAMBDA i : gamepads[i] = "Connected")

\* one Connected event per such slot, in increasing slot order
ProbedPrelude == [k \in 1 .. Len(ProbedAttached) |-> Connected(ProbedAttached[k])]

\* C11: the first events next_event returns are one Connected event for each
\* slot whose probe at construction found a device, in increasing slot order;
\* an event the polling thread sent is returned only after all of them, also
\* when it was already in the channel before the prelude was drained.
C11_PreludeFirst ==
    /\ \A k \in 1 .. Len(delivered) :
          k <= Len(ProbedPrelude) => delivered[k] = ProbedPrelude[k]
    /\ Len(delivered) < Len(ProbedPrelude) =>
          additional_events = SubSeq(ProbedPrelude, Len(delivered) + 1, Len(ProbedPrelude))
    /\ Len(delivered) >= Len(ProbedPrelude) => additional_events = << >>

\* two slots were attached at construction, the consumer has taken the first
\* Connected event, and the polling thread has already sent an event
C11_Witness ==
    /\ Len(ProbedPrelude) = 2
    /\ Len(delivered) = 1
    /\ Len(additional_events) = 1
    /\ rx # << >>

(***************************************************************************)
(* The device registry: lookups by index, in both backends.                *)
(***************************************************************************)
\* the usize indices looked up: the slots, the first indices past them,
\* 2^16, 2^32 and usize::MAX
LookupIndices ==
    { << n, 0, 0, 0 >> : n \in 0 .. NUM_SLOTS + 1 }
    \cup { << 0, 1, 0, 0 >>, << 0, 0, 1, 0 >>, << LIMB - 1, LIMB - 1, LIMB - 1, LIMB - 1 >> }

\* the u16 gains passed to set_ff_gain
FfGains == { 0, LIMB - 1 }

InitLookup ==
    /\ \/ /\ platform = "windows"
          /\ probe \in [Slots -> BOOLEAN]
          /\ gamepads = [i \in Slots |-> gamepad_new(probe[i])]
          /\ connected = [i \in Slots |-> is_connected(gamepads[i])]
          /\ additional_events = Prelude(connected, 0)
          /\ not_observed = Gilrs_not_observed
       \/ /\ platform = "default"
          /\ probe = << >>
          /\ gamepads = << >>
          /\ connected = << >>
          /\ additional_events = << >>
          /\ not_observed = default_Gilrs_not_observed
    /\ rx = << >>
    /\ prev_state = ZeroedXState
    /\ counter = U64Zero
    /\ since_sweep = 0
    /\ id = 0
    /\ val = "NONE"
    /\ cmp = NoCall
    /\ last_polled = [i \in Slots |-> NoSnap]
    /\ prev_owner = -1
    /\ flipped = [i \in Slots |-> {}]
    /\ delivered = << >>
    /\ api = NoApiCall

\* what a lookup leaves alone
lookup_frame ==
    << probe, gamepads, rx, thread_vars, additional_events, delivered, platform, not_observed >>

\* platform::windows::Gilrs::gamepad(id)
LookupGamepad ==
    /\ platform = "windows"
    /\ \E idx \in LookupIndices : api' = ApiCall("gamepad", idx, gamepad(idx))
    /\ UNCHANGED lookup_frame

\* platform::windows::Gilrs::gamepad_mut(id)
LookupGamepadMut ==
    /\ platform = "windows"
    /\ \E idx \in LookupIndices : api' = ApiCall("gamepad_mut", idx, gamepad_mut(idx))
    /\ UNCHANGED lookup_frame

\* platform::default::Gilrs::gamepad(id)
StubGamepad ==
    /\ platform = "default"
    /\ \E idx \in LookupIndices : api' = ApiCall("gamepad", idx, default_gamepad(idx))
    /\ UNCHANGED lookup_frame

\* platform::default::Gilrs::gamepad_mut(id)
StubGamepadMut ==
    /\ platform = "default"
    /\ \E idx \in LookupIndices : api' = ApiCall("gamepad_mut", idx, default_gamepad_mut(idx))
    /\ UNCHANGED lookup_frame

\* gamepad_mut(id) followed by set_ff_gain(gain) on the handle it returned
StubSetFfGain ==
    /\ platform = "default"
    /\ \E idx \in LookupIndices, gain \in FfGains :
          /\ not_observed' = default_Gamepad_set_ff_gain(default_gamepad_mut(idx).handle, gain)
          /\ api' = ApiCall("set_ff_gain", << idx, gain >>, None)
    /\ UNCHANGED << probe, gamepads, rx, thread_vars, additional_events, delivered, platform >>

\* pool_events().next()
StubPoolEventsNext ==
    /\ platform = "default"
    /\ api' = ApiCall("next", api.op, EventIterator_next)
    /\ UNCHANGED lookup_frame

NextLookup ==
    \/ LookupGamepad
    \/ LookupGamepadMut
    \/ StubGamepad
    \/ StubGamepadMut
    \/ StubSetFfGain
    \/ StubPoolEventsNext

SpecLookup == InitLookup /\ [][NextLookup]_vars

\* the latest call was a lookup
IsLookup == api.op \in { "gamepad", "gamepad_mut" }

\* the index of the lookup is past the slots the backend has
OutOfRange == platform = "default" \/ ~U64Below(api.arg, NUM_SLOTS)

\* the handle's name, as its backend reports it
HandleName(h) ==
    IF platform = "windows" THEN Gamepad_name(h.inner) ELSE default_Gamepad_name(h.inner)

HandleUuid(h) ==
    IF platform = "windows" THEN Gamepad_uuid(h.inner) ELSE default_Gamepad_uuid(h.inner)

HandleFfSupported(h) ==
    IF platform = "windows" THEN Gamepad_is_ff_supported(h.inner)
    ELSE default_Gamepad_is_ff_supported(h.inner)

\* C12: a lookup with an out-of-range index returns the shared placeholder,
\* whose status is NotObserved, whose name is empty, whose uuid is nil and
\* which does not support force feedback, in both backends and for every
\* index, huge ones included.
C12_PlaceholderNeutral ==
    IsLookup /\ OutOfRange =>
        /\ api.ret.field = "not_observed"
        /\ api.ret.handle = not_observed
        /\ api.ret.handle.status = "NotObserved"
        /\ HandleName(api.ret.handle) = ""
        /\ HandleUuid(api.ret.handle) = UuidNil
        /\ ~HandleFfSupported(api.ret.handle)

(***************************************************************************)
(* The polling loop across the wrap-around of `counter`.                   *)
(***************************************************************************)
\* the probe outcomes of the run across the wrap-around: no device at
\* construction, or one in the first slot
WrapProbes == { [i \in Slots |-> FALSE], [i \in Slots |-> i = 0] }

\* the thread has run for 2^64 - WrapWindow cycles, the tracked flags are as
\* at construction and the consumer has taken nothing yet
InitWrap ==
    /\ probe \in WrapProbes
    /\ gamepads = [i \in Slots |-> gamepad_new(probe[i])]
    /\ connected = [i \in Slots |-> is_connected(gamepads[i])]
    /\ additional_events = Prelude(connected, 0)
    /\ rx = << >>
    /\ prev_state = ZeroedXState
    /\ counter = WrapStart
    /\ since_sweep = U64Mod(WrapStart, ITERATIONS_TO_CHECK_IF_CONNECTED)
    /\ id = 0
    /\ val = "NONE"
    /\ cmp = NoCall
    /\ last_polled = [i \in Slots |-> NoSnap]
    /\ prev_owner = -1
    /\ flipped = [i \in Slots |-> {}]
    /\ delivered = << >>
    /\ platform = "windows"
    /\ not_observed = Gilrs_not_observed
    /\ api = NoApiCall

SpecWrap == InitWrap /\ [][Next]_vars

\* C13: a loop body skips the query exactly for a slot tracked as not
\* connected in a cycle whose counter is not a multiple of 100 (so a connected
\* slot is queried in every cycle and every slot in a cycle whose counter is a
\* multiple of 100); such a cycle comes at most 100 cycles after the one
\* before, also across the wrap-around of the counter; and a successful query
\* of a slot tracked as not connected sends its Connected event in that cycle.
C13_ThrottledProbing ==
    /\ [](since_sweep <= ITERATIONS_TO_CHECK_IF_CONNECTED - 1)
    /\ [](since_sweep = 0 <=> U64Mod(counter, ITERATIONS_TO_CHECK_IF_CONNECTED) = 0)
    /\ [][BodyStep =>
            (val' = "NOT_QUERIED" <=>
                ~connected[id] /\ U64Mod(counter, ITERATIONS_TO_CHECK_IF_CONNECTED) # 0)]_vars
    /\ [][BodyStep /\ ~connected[id] /\ val' = "ERROR_SUCCESS" =>
            /\ connected'[id]
            /\ NewEvents # << >>
            /\ Head(NewEvents) = Connected(id)]_vars

\* after the wrap-around, in cycle 100, a slot that had no device at
\* construction and was skipped since cycle 0 is queried and connects
C13_Witness ==
    /\ counter = << ITERATIONS_TO_CHECK_IF_CONNECTED, 0, 0, 0 >>
    /\ since_sweep = 0
    /\ val = "ERROR_SUCCESS"
    /\ id \in 1 .. NUM_SLOTS
    /\ gamepads[id - 1] = "NotObserved"
    /\ last_polled[id - 1] # NoSnap
    /\ rx = << Connected(id - 1) >>
    /\ delivered = << >>

\* C14: comparing a pad with itself sends no event.
C14_DiffIdempotent ==
    cmp.called /\ cmp.g = cmp.pg => cmp.out = << >> /\ rx = << >>

\* a pad with a button held, a trigger pulled and a stick deflected has been
\* compared with itself
C14_Witness ==
    /\ cmp.called
    /\ cmp.g = cmp.pg
    /\ cmp.g.wButtons # 0
    /\ cmp.g.bLeftTrigger = U8_MAX
    /\ cmp.g.sThumbLY = I16_MIN

\* C15: the status Gilrs::new gives a slot is Connected if the slot's probing
\* query succeeded and NotObserved otherwise, never Disconnected, and the
\* connected flag the polling thread starts with is true exactly for the
\* slots whose status is Connected.
C15_InitialStatus ==
    platform = "windows" =>
        \A i \in Slots :
            /\ gamepads[i] = IF probe[i] THEN "Connected" ELSE "NotObserved"
            /\ gamepads[i] # "Disconnected"
            /\ SlotHandle(i).status = gamepads[i]
            /\ counter = U64Zero /\ id = 0 => connected[i] = (gamepads[i] = "Connected")

\* a slot whose probe succeeded is looked up while another slot's probe failed
C15_Witness ==
    /\ platform = "windows"
    /\ api.op = "gamepad"
    /\ U64Below(api.arg, NUM_SLOTS)
    /\ probe[api.arg[1]]
    /\ api.ret.handle.status = "Connected"
    /\ connected[api.arg[1]]
    /\ \E j \in Slots : ~probe[j] /\ gamepads[j] = "NotObserved" /\ ~connected[j]

(***************************************************************************)
(* The state differ over the whole range of the raw axis readings.         *)
(***************************************************************************)
\* the readings of the sticks other than LeftStickX
StickEdges == { I16_MIN, -1, 0, 1, I16_MAX }

\* the current pads: every i16 reading of LeftStickX, the extremes and the
\* centre of the other sticks, every u8 reading of both triggers
NormPads ==
    { XGamepad(0, 0, 0, lx, 0, 0, 0) : lx \in I16_MIN .. I16_MAX }
    \cup { XGamepad(0, 0, 0, 0, ly, sx, sy) : ly \in StickEdges, sx \in StickEdges, sy \in StickEdges }
    \cup { XGamepad(0, lt, 0, 0, 0, 0, 0) : lt \in 0 .. U8_MAX }
    \cup { XGamepad(0, 0, rt, 0, 0, 0, 0) : rt \in 0 .. U8_MAX }

\* the previous pads: at rest, and with every axis one step off rest
NormPrevPads == { ZeroedGamepad, XGamepad(0, 1, 1, 1, 1, 1, 1) }

InitNorm ==
    /\ probe = [i \in Slots |-> TRUE]
    /\ gamepads = [i \in Slots |-> gamepad_new(probe[i])]
    /\ connected = [i \in Slots |-> is_connected(gamepads[i])]
    /\ additional_events = << >>
    /\ rx = << >>
    /\ prev_state = ZeroedXState
    /\ counter = U64Zero
    /\ since_sweep = 0
    /\ id = 0
    /\ val = "ERROR_SUCCESS"
    /\ \E g \in NormPads, pg \in NormPrevPads : cmp = Pending(0, g, pg)
    /\ last_polled = [i \in Slots |-> NoSnap]
    /\ prev_owner = -1
    /\ flipped = [i \in Slots |-> {}]
    /\ delivered = << >>
    /\ platform = "windows"
    /\ not_observed = Gilrs_not_observed
    /\ api = NoApiCall

SpecNorm == InitNorm /\ [][NextDiff]_vars

IsTrigger(code) == code \in { AXIS_LT2, AXIS_RT2 }

\* C16: the value of every AxisChanged event is, for a stick, the current raw
\* reading divided by 32767 if the reading is >= 0 and by 32768 if it is < 0,
\* hence within [-1.0, 1.0], exactly -1.0 for -32768, exactly 1.0 for 32767
\* and 0.0 for 0; for a trigger it is the reading divided by 255, within
\* [0.0, 1.0], 0.0 for 0 and 1.0 for 255.
C16_NormalizedRange ==
    cmp.called =>
        \A k \in 1 .. Len(cmp.out) :
            IsAxisEvent(cmp.out[k]) =>
                LET raw == AxisRaw(cmp.g, cmp.out[k].code)
                    v == cmp.out[k].value
                IN  /\ v.num = raw
                    /\ v.den > 0
                    /\ v.num <= v.den
                    /\ IF IsTrigger(cmp.out[k].code)
                       THEN /\ v.den = 255
                            /\ raw \in 0 .. 255
                            /\ 0 <= v.num
                            /\ raw = 255 <=> v.num = v.den
                       ELSE /\ v.den = IF raw >= 0 THEN 32767 ELSE 32768
                            /\ raw \in -32768 .. 32767
                            /\ -v.den <= v.num
                            /\ raw = -32768 <=> v.num = -v.den
                            /\ raw = 32767 <=> v.num = v.den
                    /\ raw = 0 <=> v.num = 0

\* LeftStickX at -32768 has been reported as exactly -1.0
C16_Witness ==
    /\ cmp.called
    /\ cmp.g.sThumbLX = I16_MIN
    /\ \E k \in 1 .. Len(cmp.out) :
          /\ cmp.out[k].code = AXIS_LSTICKX
          /\ IsAxisEvent(cmp.out[k])
          /\ cmp.out[k].value.num = -cmp.out[k].value.den

\* the events of the polling thread that next_event has returned
LiveDelivered ==
    IF Len(delivered) > Len(ProbedPrelude)
    THEN SubSeq(delivered, Len(ProbedPrelude) + 1, Len(delivered))
    ELSE << >>

\* the events the polling thread has sent: those returned, then those in the channel
Stream == LiveDelivered \o rx

IsPrefix(s, t) == Len(s) <= Len(t) /\ SubSeq(t, 1, Len(s)) = s

\* C17: the events the polling thread has sent so far, in the order it sent
\* them, are always the events next_event has returned from the channel
\* followed by the events still in the channel: a loop body appends what it
\* sends, next_event takes the oldest event of the channel, and nothing is
\* lost, duplicated or reordered; with the prelude and the channel both empty
\* next_event can still be called and returns without delivering anything.
C17_ChannelFifo ==
    /\ [][IF delivered' # delivered
          THEN /\ Len(delivered') = Len(delivered) + 1
               /\ IsPrefix(delivered, delivered')
               /\ Stream' = Stream
               /\ additional_events = << >> => delivered'[Len(delivered')] = Head(rx)
          ELSE /\ IsPrefix(rx, rx')
               /\ BodyStep \/ rx' = rx]_vars
    /\ [](additional_events = << >> /\ rx = << >> =>
            /\ ENABLED NextEventNone
            /\ ~ENABLED NextEventPrelude
            /\ ~ENABLED NextEventRecv)

\* next_event has returned two events of the polling thread, the second of
\* which was sent while the first was still in the channel
C17_Witness ==
    /\ Len(LiveDelivered) = 2
    /\ rx = << >>
    /\ LiveDelivered[1].kind = "Connected"
    /\ IsInput(LiveDelivered[2])
    /\ LiveDelivered[2].id = LiveDelivered[1].id

\* C18: in the default backend the placeholder is the only device and stays
\* as Gilrs::new built it, with status NotObserved, whatever is called: every
\* lookup, for every index, returns that placeholder; the event iterator
\* returns None; and no event is ever delivered.
C18_StubTerminal ==
    platform = "default" =>
        /\ not_observed = default_Gilrs_not_observed
        /\ not_observed.status = "NotObserved"
        /\ IsLookup =>
              /\ api.ret.field = "not_observed"
              /\ api.ret.handle = not_observed
              /\ api.ret.handle.status = "NotObserved"
        /\ api.op = "next" => ~api.ret.some
        /\ delivered = << >>
        /\ rx = << >>

\* the event iterator has returned None right after set_ff_gain was called on
\* the handle gamepad_mut returned
C18_Witness ==
    /\ platform = "default"
    /\ api.op = "next"
    /\ api.arg = "set_ff_gain"
    /\ ~api.ret.some

(***************************************************************************)
(* Properties of the stored previous snapshot.                             *)
(***************************************************************************)
\* C19: a loop body runs the differ exactly when its query succeeded with a
\* packet number different from the stored previous snapshot's, and exactly
\* then the new snapshot replaces the stored one; in every other loop body
\* (same packet number, failed query, slot skipped by the throttle) no button
\* or axis event is sent and the stored previous snapshot stays as it is, as
\* it does at the end of a cycle and when the consumer takes an event.
C19_PrevStateFrame ==
    /\ [][BodyStep =>
            /\ cmp'.called <=>
                  /\ val' = "ERROR_SUCCESS"
                  /\ last_polled'[id].dwPacketNumber # prev_state.dwPacketNumber
            /\ cmp'.called =>
                  /\ prev_state' = last_polled'[id]
                  /\ prev_owner' = id
                  /\ cmp'.g = last_polled'[id].Gamepad
                  /\ cmp'.pg = prev_state.Gamepad
                  /\ SelectSeq(NewEvents, IsInput) = cmp'.out
            /\ ~cmp'.called =>
                  /\ prev_state' = prev_state
                  /\ prev_owner' = prev_owner
                  /\ SelectSeq(NewEvents, IsInput) = << >>
            /\ val' # "ERROR_SUCCESS" => last_polled' = last_polled]_vars
    /\ [][~BodyStep => prev_state' = prev_state /\ prev_owner' = prev_owner]_vars

\* a connected slot has just been polled with the packet number of the stored
\* previous snapshot, which is its own: the differ did not run
C19_Witness ==
    /\ val = "ERROR_SUCCESS"
    /\ id \in 1 .. NUM_SLOTS
    /\ ~cmp.called
    /\ ~U64Below(counter, 1)
    /\ prev_owner = id - 1
    /\ prev_state = last_polled[id - 1]
    /\ prev_state # ZeroedXState
    /\ gamepads[id - 1] = "Connected"

\* slot `id`, which had no device at construction and connected in cycle 0,
\* gets its next successful poll, in cycle 1
FirstPollAfterConnect ==
    /\ BodyStep
    /\ counter = wrapping_add_one(U64Zero)
    /\ gamepads[id] = "NotObserved"
    /\ connected[id]
    /\ last_polled[id] # NoSnap
    /\ val' = "ERROR_SUCCESS"

\* C20: at the first successful poll of a slot after the poll that connected
\* it, the differ, if it runs, compares the new snapshot with the slot's
\* connect-time snapshot, and a new snapshot identical to the connect-time
\* one sends no button or axis event.
C20_ConnectSnapshotIsBaseline ==
    [][FirstPollAfterConnect =>
         /\ cmp'.called => cmp'.pg = last_polled[id].Gamepad
         /\ last_polled'[id] = last_polled[id] => SelectSeq(NewEvents, IsInput) = << >>]_vars

(***************************************************************************)
(* A pair of devices followed over the last cycles of the explored range,  *)
(* with one event more than in Spec.                                       *)
(***************************************************************************)
\* the cycles of the run that follows a pair of devices, after its first
PairCycles == 2

\* that run is explored while the thread has sent fewer than PairEvents events
PairEvents == 3

\* the counter at the start of that run
PairStart == << MaxCycles - PairCycles, 0, 0, 0 >>

\* the thread has run for MaxCycles - PairCycles cycles in which every query
\* returned a transient error code: the state is as at construction
InitPair ==
    /\ probe \in [Slots -> BOOLEAN]
    /\ \A i \in Slots \ HwSlots : ~probe[i]
    /\ gamepads = [i \in Slots |-> gamepad_new(probe[i])]
    /\ connected = [i \in Slots |-> is_connected(gamepads[i])]
    /\ additional_events = Prelude(connected, 0)
    /\ rx = << >>
    /\ prev_state = ZeroedXState
    /\ counter = PairStart
    /\ since_sweep = U64Mod(PairStart, ITERATIONS_TO_CHECK_IF_CONNECTED)
    /\ id = 0
    /\ val = "NONE"
    /\ cmp = NoCall
    /\ last_polled = [i \in Slots |-> NoSnap]
    /\ prev_owner = -1
    /\ flipped = [i \in Slots |-> {}]
    /\ delivered = << >>
    /\ platform = "windows"
    /\ not_observed = Gilrs_not_observed
    /\ api = NoApiCall

\* The buttons whose bit flipped at the latest change of the polled slot's
\* snapshot, after a successful query: none for a slot that connects in this
\* loop body, kept when the query returns the snapshot of the poll before,
\* and the buttons that differ when it returns a larger packet number.
FlippedAfterPoll ==
    IF ~connected[id] \/ last_polled[id] = NoSnap THEN {}
    ELSE IF last_polled'[id] = last_polled[id] THEN flipped[id]
    ELSE IF last_polled'[id].dwPacketNumber > last_polled[id].dwPacketNumber
         THEN ChangedButtons(last_polled'[id].Gamepad, last_polled[id].Gamepad)
         ELSE {}

\* val == ERROR_SUCCESS
PairPollSuccess ==
    /\ PollSuccessWithin(PairEvents)
    /\ flipped' = [flipped EXCEPT ![id] = FlippedAfterPoll]

\* val == ERROR_DEVICE_NOT_CONNECTED
PairPollNotConnected ==
    /\ PollNotConnectedWithin(PairEvents)
    /\ flipped' = [flipped EXCEPT ![id] = {}]

NextPair ==
    \/ PollSkip
    \/ PairPollSuccess
    \/ PairPollNotConnected
    \/ PollError
    \/ EndCycle
    \/ NextEventPrelude
    \/ NextEventRecv
    \/ NextEventNone

SpecPair == InitPair /\ [][NextPair]_vars

\* the ButtonPressed and ButtonReleased events of slot i and button code in
\* a sequence of events
ButtonEvents(events, i, code) ==
    SelectSeq(events, LAMBDA e : e.id = i /\ IsButtonEvent(e) /\ e.code = code)

\* two events of the same kind follow each other in the sequence
Repeats(events) == \E k \in 1 .. Len(events) - 1 : events[k].kind = events[k + 1].kind

\* C21: for every slot and every button, the ButtonPressed and ButtonReleased
\* events the polling thread has sent for that slot and button strictly
\* alternate: no two ButtonPressed follow each other without a ButtonReleased
\* in between, and no two ButtonReleased without a ButtonPressed in between.
C21_ButtonEventsAlternate ==
    \A i \in Slots : \A code \in ButtonCodes : ~Repeats(ButtonEvents(Stream, i, code))

\* a loop body polls a tracked slot successfully and gets the snapshot the
\* slot's poll before returned: the device has been stable since
StablePoll ==
    /\ BodyStep
    /\ val' = "ERROR_SUCCESS"
    /\ connected[id]
    /\ last_polled'[id] = last_polled[id]

\* the state of a button after replaying its events from the released state:
\* pressed iff the latest of them is a ButtonPressed
Replayed(events) == events # << >> /\ events[Len(events)].kind = "ButtonPressed"

\* C22: the event stream tracks the device state. When a connected slot's
\* snapshot changed (larger packet number, a button bit flipped) and the slot
\* is then polled again, still connected and unchanged, replaying the button
\* events the polling thread has sent for that slot and button yields the bit
\* of the slot's latest polled snapshot; other slots may be connected and
\* polled in between.
C22_StreamTracksState ==
    [][StablePoll =>
         \A code \in flipped[id] :
             Replayed(ButtonEvents(Stream', id, code))
                 = Pressed(last_polled'[id].Gamepad.wButtons, code)]_vars

\* before position k of the sequence, the latest Connected or Disconnected
\* event of the slot of the event at k is a Connected
ConnectedBefore(events, k) ==
    LET life == Lifecycle(SubSeq(events, 1, k - 1), events[k].id)
    IN  life # << >> /\ life[Len(life)].kind = "Connected"

\* C23: every ButtonPressed, ButtonReleased or AxisChanged event next_event
\* has returned carries a slot index in 0..3 and was returned while its slot
\* was connected in the stream's own terms: a Connected event for the same
\* slot (of the prelude or sent by the thread) was returned before it, with
\* no Disconnected event for that slot in between.
C23_InputWhileConnected ==
    \A k \in 1 .. Len(delivered) :
        IsInput(delivered[k]) =>
            /\ delivered[k].id \in Slots
            /\ ConnectedBefore(delivered, k)

\* next_event has returned an input event of a slot that was disconnected and
\* connected again before: Disconnected, then Connected, then the input event
C23_Witness ==
    \E k \in 1 .. Len(delivered) :
        /\ IsInput(delivered[k])
        /\ \E j \in 1 .. k - 1 : delivered[j] = Disconnected(delivered[k].id)
        /\ ConnectedBefore(delivered, k)

====
